---- MODULE Spec2Model ----
(***************************************************************************)
(* ContentMatcher (src/ai-service/services/content_matcher.py): the slide  *)
(* scoring and selection engine.                                           *)
(*                                                                         *)
(* Slide records are Python dicts that the engine mutates in place, so the *)
(* model keeps a heap of records addressed by object reference; lists hold *)
(* references.  A record is a function from the keys it has to values.     *)
(*                                                                         *)
(* Scores are fixed point: judge and similarity scores in hundredths       *)
(* (0.5 is 50), combined scores in thousandths (0.8 is 800), so            *)
(* ai*0.7 + ml*0.3 is 7*ai + 3*ml.  A score the judge sends that is not a  *)
(* number is NonNum.  The cost field is the string "0", "low" or "high"    *)
(* (the code stores the integer 0 and the strings 'low', 'high').          *)
(* The identifier '' (the default of slide.get('id', '')) is 0.            *)
(***************************************************************************)
EXTENDS Integers, Sequences, FiniteSets, TLC

VARIABLES openai_client, heap, slides, pc, i, scored_slides, calls, slide_scores,
          categorized_slides, result, path,
          invocation, input, responses, similarity, first,
          vectorizer, tasks,
          requirements, batch_order, response_text

\* invocation counts the calls of match_slides on the pool; input is the
\* records as they were when the current call began; responses and
\* similarity are what the judge step of each batch and the similarity
\* computation of the current call came to; first is what the first call on
\* the pool was given and what it returned.  vectorizer is the corpus
\* self.vectorizer was fitted on last.  tasks holds the frames of two
\* invocations in flight on one ContentMatcher (specification SpecPair).
\* requirements is the frame of _select_slides_by_requirements (specification
\* SpecRequirements), batch_order the batches in the order their judge steps
\* were taken (specification SpecAnyOrder), response_text the text
\* _parse_ai_response was given (specification SpecParse).
vars == <<openai_client, heap, slides, pc, i, scored_slides, calls, slide_scores,
          categorized_slides, result, path,
          invocation, input, responses, similarity, first,
          vectorizer, tasks,
          requirements, batch_order, response_text>>

\* ------------------------------------------------------------------ bounds
MaxPool == 16

MaxVariantPool == 7

\* match_slides is called again on pools of at most MaxRerunPool slides, and
\* at most MaxInvocations times on one pool
MaxRerunPool == 4

MaxInvocations == 2

\* the sizes of the two pools of SpecPair
MaxPairPool == 6

MaxOtherPool == 2

\* ------------------------------------------------------- program constants
BatchSize == 5
HighCap == 8
MediumCap == 5
HardCap == 15
MinDeck == 10
FallbackLen == 10
DefaultCount == 10
DefaultScore == 50
AiWeight == 7
MlWeight == 3
HighThreshold == 800
MediumThreshold == 600

\* ----------------------------------------------------------------- helpers
Min(a, b) == IF a < b THEN a ELSE b

Max(a, b) == IF a > b THEN a ELSE b

Take(s, n) == SubSeq(s, 1, Min(n, Len(s)))

Range(s) == {s[k] : k \in 1..Len(s)}

\* a function on 1..n as a tuple: TLC evaluates a function constructor again
\* at every application until it is made a value
Tuple(f) == SubSeq(f, 1, Len(f))

Has(r, f) == f \in DOMAIN r

SetField(r, f, v) == [g \in (DOMAIN r) \cup {f} |-> IF g = f THEN v ELSE r[g]]

Num(v) == [num |-> TRUE, v |-> v]

NonNum == [num |-> FALSE, v |-> 0]

\* slide.get('id', '')
GetId(r) == IF Has(r, "id") THEN r.id ELSE 0

\* slide.get('ai_score', 0)
GetAiScore(r) == IF Has(r, "ai_score") THEN r.ai_score ELSE Num(0)

\* slide.get('ml_score', 0)
GetMlScore(r) == IF Has(r, "ml_score") THEN r.ml_score ELSE 0

\* ------------------------------------------------------------ input pools
PoolModes == {"dupid", "noid", "alias", "rescored"}

Rescored(o) ==
    [id |-> o, ai_score |-> Num(100), ai_reason |-> "r", ml_score |-> 100,
     combined_score |-> 1000, confidence_level |-> "high",
     action |-> "copy_exact", cost |-> "0"]

InputRecord(o, mode) ==
    CASE mode = "dupid" -> [id |-> (o + 1) \div 2]
      [] mode = "noid" -> [title |-> "t"]
      [] mode = "rescored" -> Rescored(o)
      [] OTHER -> [id |-> o]

\* A pool of n slides: the records and the list of references to them.  In
\* mode "alias" the caller's list holds the same record more than once.
MakePool(n, mode) ==
    LET objs == IF mode = "alias" THEN 1..Min(n, BatchSize + 1) ELSE 1..n
    IN [heap |-> [o \in objs |-> InputRecord(o, mode)],
        slides |-> [k \in 1..n |->
                      IF mode = "alias" THEN ((k - 1) % (BatchSize + 1)) + 1 ELSE k]]

\* records with identifiers of their own in pools of every size to MaxPool,
\* the other kinds of pool in sizes to MaxVariantPool
Pools == {MakePool(n, "distinct") : n \in 0..MaxPool}
         \cup {MakePool(n, mode) : n \in 1..MaxVariantPool, mode \in PoolModes}

\* --------------------------------------------------------- judge responses
OkRec(idx, sc) == [index |-> idx, score |-> Num(sc), reason |-> "r"]

\* _parse_ai_response, line 395: the list returned when no list is found or
\* the text between the brackets does not parse
ParseDefaults == [k \in 1..DefaultCount |->
                    [index |-> k - 1, score |-> Num(DefaultScore), reason |-> "Default score"]]

\* line 132 / line 170
FallbackScoresZero(n, why) == [k \in 1..n |->
                    [index |-> k - 1, score |-> Num(0), reason |-> why]]

FallbackScores(n, why) == [k \in 1..n |->
                    [index |-> k - 1, score |-> Num(DefaultScore), reason |-> why]]

\* Lists the judge's text can parse to (json.loads of the matched text)
Uniform(n) == [k \in 1..n |-> OkRec(k - 1, 100)]

Graded(n) == [k \in 1..n |-> OkRec(k - 1, 100 - 20 * (k - 1))]

BadScore(n) == [k \in 1..n |->
                  IF k = 1 THEN [index |-> 0, score |-> NonNum, reason |-> "r"]
                  ELSE OkRec(k - 1, 100)]

Messy(n) == << OkRec(0, 0 - 50), OkRec(0, 100), OkRec(n + 2, 100), OkRec(2, 150),
               [index |-> 3, reason |-> "r"], OkRec(4, 100) >>

ParsedLists(n) == {Uniform(n), Graded(n), BadScore(n), Messy(n)}

\* What the judge step of one batch of n slides ends with (lines 130-170):
\* no client and no request, a request that raises, or a response and the
\* list _parse_ai_response makes of it
JudgeOutcomes(client, n) ==
    IF ~client
    THEN {[call |-> "unavailable", ai_scores |-> FallbackScores(n, "AI analysis unavailable")]}
    ELSE {[call |-> "error", ai_scores |-> FallbackScores(n, "AI analysis failed")]}
         \cup {[call |-> "response", ai_scores |-> l] : l \in {ParseDefaults} \cup ParsedLists(n)}

\* next((s for s in ai_scores if s['index'] == i), default), line 174
RECURSIVE FindScore(_, _, _)
FindScore(ai_scores, k, idx) ==
    IF k > Len(ai_scores) THEN [kind |-> "default"]
    ELSE IF ~Has(ai_scores[k], "index") THEN [kind |-> "raise"]
    ELSE IF ai_scores[k].index = idx THEN [kind |-> "found", rec |-> ai_scores[k]]
    ELSE FindScore(ai_scores, k + 1, idx)

NoSpecific == [score |-> Num(DefaultScore), reason |-> "No specific analysis"]

\* lines 173-176 under the try of line 118: a KeyError ends the loop and the
\* batch is returned as it is then (line 182)
RECURSIVE ApplyScores(_, _, _, _)
ApplyScores(h, batch, ai_scores, idx) ==
    IF idx >= Len(batch) THEN h
    ELSE LET f == FindScore(ai_scores, 1, idx)
             o == batch[idx + 1]
             s == IF f.kind = "found" THEN f.rec ELSE NoSpecific
             h1 == [h EXCEPT ![o] = SetField(@, "ai_score", s.score)]
             h2 == [h1 EXCEPT ![o] = SetField(@, "ai_reason", s.reason)]
         IN IF f.kind = "raise" THEN h
            ELSE IF ~Has(s, "score") THEN h
            ELSE IF ~Has(s, "reason") THEN h1
            ELSE ApplyScores(h2, batch, ai_scores, idx + 1)

\* ------------------------------------------------------- similarity scorer
\* cosine_similarity(query_vector, slide_vectors)[0] for n slides, or the
\* exception fit_transform raises (an empty vocabulary)
Similarities(n) ==
    {[k \in 1..n |-> 80],
     [k \in 1..n |-> Max(0, 100 - 4 * (k - 1))],
     [k \in 1..n |-> Min(100, 32 + 4 * (k - 1))]}

MlOutcomes(n) == {[ok |-> FALSE, sim |-> <<>>]} \cup {[ok |-> TRUE, sim |-> s] : s \in Similarities(n)}

\* self.vectorizer.fit_transform(all_texts), line 205: the vocabulary is
\* learnt from the texts given; when it raises, the vectorizer is as it was.
\* FitOnce keeps the vocabulary of the first fit.
FitOnce(vocabulary, list, ml) ==
    IF ~ml.ok THEN vocabulary
    ELSE IF vocabulary = <<>> THEN list ELSE vocabulary

Fit(vocabulary, list, ml) == IF ml.ok THEN list ELSE vocabulary

\* lines 205-211: the similarities of the slides of a list in the vector
\* space of a vocabulary: ml.sim in the space of the list's own texts, and
\* no term in common with a space built from another request's texts
Transform(vocabulary, list, ml) ==
    IF ~ml.ok \/ vocabulary = list THEN ml
    ELSE [ok |-> TRUE, sim |-> Tuple([k \in 1..Len(list) |-> 0])]

\* the last position of a record in a list: a loop that writes to the records
\* of a list in order leaves on each record what its last position wrote
LastIndex(list, o) == CHOOSE k \in 1..Len(list) :
                         list[k] = o /\ \A j \in (k + 1)..Len(list) : list[j] # o

\* lines 214-215
WriteMl(h, list, sim) ==
    Tuple([o \in DOMAIN h |-> IF o \in Range(list)
                              THEN SetField(h[o], "ml_score", sim[LastIndex(list, o)])
                              ELSE h[o]])

\* _ml_score_slides: on an exception nothing is written (line 219-221)
MlScoreSlides(h, list, ml) == IF ml.ok THEN WriteMl(h, list, ml.sim) ELSE h

\* ------------------------------------------------- fusion and classification
\* slide_scores (lines 233-249) is a dict keyed by slide.get('id', ''), here a
\* sequence of entries in the dict's insertion order.  The first loop
\* (236-241) goes over the judge-scored list and the second (244-249) over
\* the similarity-scored list; each creates the entry of an absent key and
\* overwrites its score and its 'slide'.  So a key enters at its first
\* occurrence in the two lists taken one after the other, ai_score is the
\* value on the last record with that id in the first list (0.0 when none),
\* ml_score the one on the last record with that id in the second list (0.0
\* when none), and 'slide' is the last record with that id.
IdsOf(h, list) == {GetId(h[list[k]]) : k \in 1..Len(list)}

LastWithId(h, list, slide_id) ==
    list[CHOOSE k \in 1..Len(list) :
            /\ GetId(h[list[k]]) = slide_id
            /\ \A j \in (k + 1)..Len(list) : GetId(h[list[j]]) # slide_id]

SlideScores(h, ai_scored_slides, ml_scored_slides) ==
    LET all == ai_scored_slides \o ml_scored_slides
        FirstOfId(k) == \A j \in 1..(k - 1) : GetId(h[all[j]]) # GetId(h[all[k]])
        keys == SelectSeq([k \in 1..Len(all) |-> k], FirstOfId)
        Entry(slide_id) ==
            [id |-> slide_id,
             ai_score |-> IF slide_id \in IdsOf(h, ai_scored_slides)
                          THEN GetAiScore(h[LastWithId(h, ai_scored_slides, slide_id)])
                          ELSE Num(0),
             ml_score |-> IF slide_id \in IdsOf(h, ml_scored_slides)
                          THEN GetMlScore(h[LastWithId(h, ml_scored_slides, slide_id)])
                          ELSE 0,
             slide |-> LastWithId(h, all, slide_id)]
    IN Tuple([p \in 1..Len(keys) |-> Entry(GetId(h[all[keys[p]]]))])

\* line 261
CombinedScoreSwapped(ai_score, ml_score) == (ai_score * MlWeight) + (ml_score * AiWeight)

CombinedScore(ai_score, ml_score) == (ai_score * AiWeight) + (ml_score * MlWeight)

\* _get_confidence_level, lines 279-286
GetConfidenceLevelStrict(score) ==
    IF score > HighThreshold THEN "high"
    ELSE IF score > MediumThreshold THEN "medium"
    ELSE "low"

GetConfidenceLevelSwapped(score) ==
    IF score >= HighThreshold THEN "medium"
    ELSE IF score >= MediumThreshold THEN "high"
    ELSE "low"

GetConfidenceLevel(score) ==
    IF score >= HighThreshold THEN "high"
    ELSE IF score >= MediumThreshold THEN "medium"
    ELSE "low"

\* lines 266-271: the list a slide is appended to
Bucket(combined_score) ==
    IF combined_score >= HighThreshold THEN "high_confidence"
    ELSE IF combined_score >= MediumThreshold THEN "medium_confidence"
    ELSE "low_confidence"

KeyGreater(a, b) == a[1] > b[1] \/ (a[1] = b[1] /\ a[2] > b[2])

\* the list as it is, without sorted()
Unsorted(list, key) == list

\* sorted(list, key=..., reverse=True): stable, equal keys keep their order
RECURSIVE SortedReverse(_, _)
SortedReverse(list, key) ==
    IF list = <<>> THEN <<>>
    ELSE LET x == Head(list)
             t == SortedReverse(Tail(list), key)
             n == Cardinality({k \in 1..Len(t) : KeyGreater(key[t[k]], key[x])})
         IN SubSeq(t, 1, n) \o <<x>> \o SubSeq(t, n + 1, Len(t))

\* the same sort without reverse=True
RECURSIVE SortedForward(_, _)
SortedForward(list, key) ==
    IF list = <<>> THEN <<>>
    ELSE LET x == Head(list)
             t == SortedForward(Tail(list), key)
             n == Cardinality({k \in 1..Len(t) : KeyGreater(key[x], key[t[k]])})
         IN SubSeq(t, 1, n) \o <<x>> \o SubSeq(t, n + 1, Len(t))

ByCombinedScore(h, list) == [o \in Range(list) |-> <<h[o].combined_score, 0>>]

EmptyBuckets == [high_confidence |-> <<>>, medium_confidence |-> <<>>, low_confidence |-> <<>>]

\* line 261 for one entry of slide_scores
EntryScore(e) == CombinedScore(e.ai_score.v, e.ml_score)

\* lines 256-271, the loop over slide_scores.items(): ai_score * 0.7 raises
\* TypeError at the first entry whose judge score is not a number, and the
\* records of the entries before it keep what was written.  RaisedAt is the
\* position of that entry, 0 when there is none.
RaisedAt(entries) ==
    IF \E k \in 1..Len(entries) : ~entries[k].ai_score.num
    THEN CHOOSE k \in 1..Len(entries) :
            /\ ~entries[k].ai_score.num
            /\ \A j \in 1..(k - 1) : entries[j].ai_score.num
    ELSE 0

Classify(h, entries) ==
    LET at == RaisedAt(entries)
        scored == IF at = 0 THEN entries ELSE SubSeq(entries, 1, at - 1)
        InBucket(b) == LET Test(e) == Bucket(EntryScore(e)) = b
                           in == SelectSeq(scored, Test)
                       IN Tuple([k \in 1..Len(in) |-> in[k].slide])
    IN [raised |-> at # 0,
        heap |-> Tuple([o \in DOMAIN h |->
                    IF \E k \in 1..Len(scored) : scored[k].slide = o
                    THEN LET e == scored[CHOOSE k \in 1..Len(scored) : scored[k].slide = o]
                         IN SetField(SetField(h[o], "combined_score", EntryScore(e)),
                                     "confidence_level", GetConfidenceLevel(EntryScore(e)))
                    ELSE h[o]]),
        buckets |-> [b \in DOMAIN EmptyBuckets |-> InBucket(b)]]

\* _categorize_slides_by_confidence, lines 223-277
CategorizeSlidesByConfidence(h, ai_scored_slides, ml_scored_slides) ==
    LET entries == SlideScores(h, ai_scored_slides, ml_scored_slides)
        done == Classify(h, entries)
    IN [heap |-> done.heap, raised |-> done.raised, entries |-> entries,
        buckets |-> IF done.raised THEN done.buckets
                    ELSE [b \in DOMAIN done.buckets |->
                            SortedReverse(done.buckets[b], ByCombinedScore(done.heap, done.buckets[b]))]]

\* --------------------------------------------------------- slot allocation
\* slide['action'] = ..., slide['cost'] = ... for each slide of a list
Mark(h, list, action, cost) ==
    Tuple([o \in DOMAIN h |-> IF o \in Range(list)
                              THEN SetField(SetField(h[o], "action", action), "cost", cost)
                              ELSE h[o]])

\* high_conf[:8], line 295
HighPickedUncapped(high_conf) == high_conf

HighPicked(high_conf) == Take(high_conf, HighCap)

\* medium_conf[:5], line 302
MediumPicked(medium_conf) == Take(medium_conf, MediumCap)

\* lines 309-315: the low confidence slides taken after n are selected
LowPickedUnguarded(low_conf, n) ==
    LET remaining_slots == HardCap - n
    IN IF remaining_slots > 0 THEN Take(low_conf, remaining_slots) ELSE <<>>

LowPickedInverted(low_conf, n) ==
    LET remaining_slots == HardCap - n
    IN IF remaining_slots > 0 /\ n >= MinDeck THEN Take(low_conf, remaining_slots) ELSE <<>>

LowPickedAtMinimum(low_conf, n) ==
    LET remaining_slots == HardCap - n
    IN IF remaining_slots > 0 /\ n <= MinDeck THEN Take(low_conf, remaining_slots) ELSE <<>>

LowPicked(low_conf, n) ==
    LET remaining_slots == HardCap - n
    IN IF remaining_slots > 0 /\ n < MinDeck THEN Take(low_conf, remaining_slots) ELSE <<>>

ActionRank(action) ==
    CASE action = "copy_exact" -> 0
      [] action = "minor_enhancement" -> 1
      [] action = "full_generation" -> 2

ByScoreAndAction(h, list) ==
    [o \in Range(list) |-> <<h[o].combined_score, ActionRank(h[o].action)>>]

\* lines 318-321
SortSelectedForward(h, selected) == SortedForward(selected, ByScoreAndAction(h, selected))

SortSelected(h, selected) == SortedReverse(selected, ByScoreAndAction(h, selected))

\* _select_slides_optimized passing over the records that carry an action
\* already
SelectSlidesOptimizedOnce(h, categorized) ==
    LET Fresh(o) == ~Has(h[o], "action")
        high == HighPicked(SelectSeq(categorized.high_confidence, Fresh))
        h1 == Mark(h, high, "copy_exact", "0")
        medium == MediumPicked(SelectSeq(categorized.medium_confidence, Fresh))
        h2 == Mark(h1, medium, "minor_enhancement", "low")
        low == LowPicked(SelectSeq(categorized.low_confidence, Fresh), Len(high) + Len(medium))
        h3 == Mark(h2, low, "full_generation", "high")
        selected_slides == high \o medium \o low
    IN [heap |-> h3, list |-> Take(SortSelected(h3, selected_slides), HardCap)]

\* _select_slides_optimized, lines 288-323
SelectSlidesOptimized(h, categorized) ==
    LET high == HighPicked(categorized.high_confidence)
        h1 == Mark(h, high, "copy_exact", "0")
        medium == MediumPicked(categorized.medium_confidence)
        h2 == Mark(h1, medium, "minor_enhancement", "low")
        low == LowPicked(categorized.low_confidence, Len(high) + Len(medium))
        h3 == Mark(h2, low, "full_generation", "high")
        selected_slides == high \o medium \o low
    IN [heap |-> h3, list |-> Take(SortSelected(h3, selected_slides), HardCap)]

\* match_slides without the except clause of line 71: the exception leaves
\* match_slides
RestOfMatchSlidesNoExcept(h, list, ai_scored_slides, ml) ==
    LET h1 == MlScoreSlides(h, list, ml)
        cat == CategorizeSlidesByConfidence(h1, ai_scored_slides, list)
        sel == SelectSlidesOptimized(cat.heap, cat.buckets)
    IN IF cat.raised
       THEN [heap |-> cat.heap, slide_scores |-> cat.entries,
             categorized_slides |-> cat.buckets,
             result |-> <<>>, path |-> "raised"]
       ELSE [heap |-> sel.heap, slide_scores |-> cat.entries,
             categorized_slides |-> cat.buckets,
             result |-> sel.list, path |-> "selected"]

\* match_slides, lines 57-73: steps 2 to 4 and the except clause
RestOfMatchSlides(h, list, ai_scored_slides, ml) ==
    LET h1 == MlScoreSlides(h, list, ml)
        cat == CategorizeSlidesByConfidence(h1, ai_scored_slides, list)
        sel == SelectSlidesOptimized(cat.heap, cat.buckets)
    IN IF cat.raised
       THEN [heap |-> cat.heap, slide_scores |-> cat.entries,
             categorized_slides |-> cat.buckets,
             result |-> Take(list, FallbackLen), path |-> "fallback"]
       ELSE [heap |-> sel.heap, slide_scores |-> cat.entries,
             categorized_slides |-> cat.buckets,
             result |-> sel.list, path |-> "selected"]

\* _ai_score_slides (lines 96-105) from batch b on, given the list each
\* batch's judge step came to
RECURSIVE AiScoreSlides(_, _, _, _)
AiScoreSlides(h, list, ai_scores_of, b) ==
    IF BatchSize * (b - 1) >= Len(list) THEN h
    ELSE LET batch == SubSeq(list, BatchSize * (b - 1) + 1, Min(BatchSize * b, Len(list)))
         IN AiScoreSlides(ApplyScores(h, batch, ai_scores_of[b], 0), list, ai_scores_of, b + 1)

\* one whole invocation of match_slides on a non-empty list (lines 50-73)
MatchSlidesAlone(h, list, ai_scores_of, ml) ==
    RestOfMatchSlides(AiScoreSlides(h, list, ai_scores_of, 1), list, list, ml)

\* ------------------------------------------------- diversity/length policy
\* Strings that the code searches are sequences of characters.
UpperCase == <<"A", "B", "C", "D", "E", "F", "G", "H", "I", "J", "K", "L", "M", "N", "O", "P", "Q", "R", "S", "T", "U", "V", "W", "X", "Y", "Z">>

LowerCase == <<"a", "b", "c", "d", "e", "f", "g", "h", "i", "j", "k", "l", "m", "n", "o", "p", "q", "r", "s", "t", "u", "v", "w", "x", "y", "z">>

\* str.lower()
Lower(s) ==
    Tuple([k \in 1..Len(s) |->
             IF \E c \in 1..Len(UpperCase) : UpperCase[c] = s[k]
             THEN LowerCase[CHOOSE c \in 1..Len(UpperCase) : UpperCase[c] = s[k]]
             ELSE s[k]])

\* w in s
Contains(s, w) == \E k \in 1..(Len(s) - Len(w) + 1) : SubSeq(s, k, k + Len(w) - 1) = w

KwPitch == <<"p", "i", "t", "c", "h">>

KwDemo == <<"d", "e", "m", "o">>

KwTraining == <<"t", "r", "a", "i", "n", "i", "n", "g">>

KwEducation == <<"e", "d", "u", "c", "a", "t", "i", "o", "n">>

KwReport == <<"r", "e", "p", "o", "r", "t">>

KwAnalysis == <<"a", "n", "a", "l", "y", "s", "i", "s">>

TargetPitch == 8
TargetTraining == 15
TargetReport == 12
TargetDefault == 10
TitleCap == 2
ConclusionCap == 2
ContentPercent == 40
ChartPercent == 20
ImagePercent == 15
QuotePercent == 10
OtherPercent == 10

\* lines 334-341 without .lower()
TargetSlidesNoLower(use_case) ==
    IF Contains(use_case, KwPitch) \/ Contains(use_case, KwDemo) THEN TargetPitch
    ELSE IF Contains(use_case, KwTraining) \/ Contains(use_case, KwEducation) THEN TargetTraining
    ELSE IF Contains(use_case, KwReport) \/ Contains(use_case, KwAnalysis) THEN TargetReport
    ELSE TargetDefault

\* lines 334-341
TargetSlides(use_case) ==
    LET u == Lower(use_case)
    IN IF Contains(u, KwPitch) \/ Contains(u, KwDemo) THEN TargetPitch
       ELSE IF Contains(u, KwTraining) \/ Contains(u, KwEducation) THEN TargetTraining
       ELSE IF Contains(u, KwReport) \/ Contains(u, KwAnalysis) THEN TargetReport
       ELSE TargetDefault

\* int(total_slides * 0.4) and the like: total_slides is 8, 10, 12 or 15, for
\* which the float product truncates to the floor of the exact product
Fraction(total_slides, percent) == (total_slides * percent) \div 100

\* _get_max_slides_per_type, lines 368-380
GetMaxSlidesPerType(slide_type, total_slides) ==
    CASE slide_type = "title" -> TitleCap
      [] slide_type = "content" -> Fraction(total_slides, ContentPercent)
      [] slide_type = "chart" -> Fraction(total_slides, ChartPercent)
      [] slide_type = "image" -> Fraction(total_slides, ImagePercent)
      [] slide_type = "quote" -> Fraction(total_slides, QuotePercent)
      [] slide_type = "conclusion" -> ConclusionCap
      [] OTHER -> Fraction(total_slides, OtherPercent)

SlideTypes == {"title", "content", "chart", "image", "quote", "conclusion", "diagram"}

\* slide.get('slideType', 'content'), line 349
GetSlideType(slide) == IF Has(slide, "slideType") THEN slide.slideType ELSE "content"

\* line 355 without the test of the type's cap
AdmitGuardNoCap(type_count, max_per_type, count, target_slides) ==
    count < target_slides

\* line 355
AdmitGuard(type_count, max_per_type, count, target_slides) ==
    type_count < max_per_type /\ count < target_slides

\* lines 347-357 from entry k on: the entries admitted and the count per type
RECURSIVE Admit(_, _, _, _, _)
Admit(sorted_slides, k, selected_slides, slide_types, target_slides) ==
    IF k > Len(sorted_slides) THEN selected_slides
    ELSE LET slide_data == sorted_slides[k]
             slide_type == GetSlideType(slide_data.slide)
             type_count == slide_types[slide_type]
             max_per_type == GetMaxSlidesPerType(slide_type, target_slides)
         IN IF AdmitGuard(type_count, max_per_type, Len(selected_slides), target_slides)
            THEN Admit(sorted_slides, k + 1, Append(selected_slides, slide_data),
                       [slide_types EXCEPT ![slide_type] = type_count + 1], target_slides)
            ELSE Admit(sorted_slides, k + 1, selected_slides, slide_types, target_slides)

\* lines 360-364.  'slide_data not in selected_slides' compares dicts with ==,
\* so an entry equal to a selected one counts as selected.  A turn of the
\* while loop whose for loop finds no entry to append changes nothing, and
\* the loop's condition is as it was: the loop does not end (returns FALSE).
RECURSIVE Fill(_, _, _)
Fill(sorted_slides, selected_slides, target_slides) ==
    IF Len(selected_slides) < target_slides /\ Len(selected_slides) < Len(sorted_slides)
    THEN IF \E k \in 1..Len(sorted_slides) : sorted_slides[k] \notin Range(selected_slides)
         THEN LET k == CHOOSE j \in 1..Len(sorted_slides) :
                          /\ sorted_slides[j] \notin Range(selected_slides)
                          /\ \A m \in 1..(j - 1) : sorted_slides[m] \in Range(selected_slides)
              IN Fill(sorted_slides, Append(selected_slides, sorted_slides[k]), target_slides)
         ELSE [returns |-> FALSE, selected_slides |-> selected_slides]
    ELSE [returns |-> TRUE, selected_slides |-> selected_slides]

\* _select_slides_by_requirements, lines 325-366
SelectSlidesByRequirements(sorted_slides, use_case) ==
    LET target_slides == TargetSlides(use_case)
        admitted == Admit(sorted_slides, 1, <<>>, [t \in SlideTypes |-> 0], target_slides)
        filled == Fill(sorted_slides, admitted, target_slides)
    IN [returns |-> filled.returns,
        target_slides |-> target_slides,
        admitted |-> Len(admitted),
        selected_slides |-> IF filled.returns THEN Take(filled.selected_slides, target_slides)
                            ELSE filled.selected_slides]

\* use cases: up to MaxWords words with a space after each
MaxWords == 2

Words == {"Pitch", "DEMO", "training", "Education", "REPORT", "analysis", "sales", "pitching"}

Spell(word) ==
    CASE word = "Pitch" -> <<"P", "i", "t", "c", "h", " ">>
      [] word = "DEMO" -> <<"D", "E", "M", "O", " ">>
      [] word = "training" -> <<"t", "r", "a", "i", "n", "i", "n", "g", " ">>
      [] word = "Education" -> <<"E", "d", "u", "c", "a", "t", "i", "o", "n", " ">>
      [] word = "REPORT" -> <<"R", "E", "P", "O", "R", "T", " ">>
      [] word = "analysis" -> <<"a", "n", "a", "l", "y", "s", "i", "s", " ">>
      [] word = "sales" -> <<"s", "a", "l", "e", "s", " ">>
      [] word = "pitching" -> <<"p", "i", "t", "c", "h", "i", "n", "g", " ">>

RECURSIVE UseCase(_)
UseCase(words) == IF words = <<>> THEN <<>> ELSE Spell(Head(words)) \o UseCase(Tail(words))

WordLists == UNION {[1..n -> Words] : n \in 0..MaxWords}

\* lists of entries {'slide': slide, 'score': score} in descending score order
MaxTypeSeq == 3

MaxRequirementsPool == 16

ShortTypes == {"title", "quote", "none"}

Patterns == {<<"content">>, <<"title", "content", "chart">>,
             <<"content", "chart", "image", "quote", "diagram", "conclusion", "title">>}

TypeSeqs == UNION {[1..n -> ShortTypes] : n \in 0..MaxTypeSeq}
            \cup {[k \in 1..n |-> pat[((k - 1) % Len(pat)) + 1]] :
                     n \in 0..MaxRequirementsPool, pat \in Patterns}

EntryModes == {"distinct", "tied", "equal"}

\* entry k of a list: in mode "equal" the slides carry no identifier and the
\* scores are the same, so entries of one type are equal dicts
Entry(type, k, mode) ==
    LET base == IF type = "none" THEN [title |-> "t"] ELSE [title |-> "t", slideType |-> type]
    IN [slide |-> IF mode = "equal" THEN base ELSE SetField(base, "id", k),
        score |-> IF mode = "distinct" THEN 100 - 5 * (k - 1) ELSE 90]

SortedLists == {Tuple([k \in 1..Len(types) |-> Entry(types[k], k, mode)]) :
                   types \in TypeSeqs, mode \in EntryModes}

\* ------------------------------------------------------ _parse_ai_response
\* The judge's text is a sequence of tokens: the brackets, the comma, a
\* record (the text of one {"index": .., "score": .., "reason": ..} object)
\* and a word of prose.
Open == [t |-> "["]

Close == [t |-> "]"]

Comma == [t |-> ","]

Word == [t |-> "w"]

Rec(r) == [t |-> "rec", rec |-> r]

\* a list inside the list: s['index'] on it raises TypeError, which the
\* except of line 180 catches as it does the KeyError of a record without
\* 'index'
NestedList == [nested |-> TRUE]

\* json.loads of tokens m from position k, where a list is to begin: whether
\* a list is there, the position after it, and the list
RECURSIVE JsonList(_, _)
RECURSIVE JsonElements(_, _, _)
JsonList(m, k) ==
    IF k > Len(m) \/ m[k].t # "[" THEN [ok |-> FALSE, next |-> k, value |-> <<>>]
    ELSE IF k + 1 <= Len(m) /\ m[k + 1].t = "]" THEN [ok |-> TRUE, next |-> k + 2, value |-> <<>>]
    ELSE JsonElements(m, k + 1, <<>>)

JsonElements(m, k, items) ==
    LET fail == [ok |-> FALSE, next |-> k, value |-> <<>>]
        sub == JsonList(m, k)
        item == IF m[k].t = "rec" THEN m[k].rec ELSE NestedList
        after == IF m[k].t = "rec" THEN k + 1 ELSE sub.next
    IN IF k > Len(m) THEN fail
       ELSE IF m[k].t \notin {"rec", "["} THEN fail
       ELSE IF m[k].t = "[" /\ ~sub.ok THEN fail
       ELSE IF after > Len(m) THEN fail
       ELSE IF m[after].t = "," THEN JsonElements(m, after + 1, Append(items, item))
       ELSE IF m[after].t = "]"
            THEN [ok |-> TRUE, next |-> after + 1, value |-> Append(items, item)]
       ELSE fail

\* _parse_ai_response, lines 382-395: re.search(r'\[.*\]', text, re.DOTALL)
\* matches from the first '[' to the last ']' after it; the match is given to
\* json.loads; with no match, or when json.loads raises, the defaults of
\* line 395 are returned
ParseAiResponse(text) ==
    LET opens == {k \in 1..Len(text) : text[k].t = "["}
        first_open == CHOOSE k \in opens : \A j \in opens : k <= j
        closes == {k \in 1..Len(text) : text[k].t = "]" /\ k > first_open}
        last_close == CHOOSE k \in closes : \A j \in closes : k >= j
        json_match == SubSeq(text, first_open, last_close)
        loaded == JsonList(json_match, 1)
    IN IF opens = {} THEN ParseDefaults
       ELSE IF closes = {} THEN ParseDefaults
       ELSE IF loaded.ok /\ loaded.next = Len(json_match) + 1 THEN loaded.value
       ELSE ParseDefaults

\* texts: a list of up to MaxListRecords records, or none, with text before
\* and after it
MaxListRecords == 2

MaxParseBatch == 3

RECURSIVE ListText(_)
ListText(n) ==
    IF n = 0 THEN <<Open, Close>>
    ELSE IF n = 1 THEN <<Open, Rec(OkRec(0, 90)), Close>>
    ELSE SubSeq(ListText(n - 1), 1, Len(ListText(n - 1)) - 1)
            \o <<Comma, Rec(OkRec(n - 1, 90 - 20 * (n - 1))), Close>>

Surroundings == {<<>>, <<Word>>, <<Open, Word, Close>>, <<Open, Close>>, <<Close>>,
                 <<Open>>, <<Word, Close, Word>>, <<Word, Open, Word>>}

Texts == {before \o list \o after :
             before \in Surroundings, after \in Surroundings,
             list \in {<<>>} \cup {ListText(n) : n \in 1..MaxListRecords}}

\* ------------------------------------------------------------------ actions
Tasks == {1, 2}

IdleRequirements == [pc |-> "idle", words |-> <<>>, use_case |-> <<>>, sorted_slides |-> <<>>,
                     target_slides |-> 0, max_per_type |-> <<>>, admitted |-> 0,
                     selected_slides |-> <<>>]

IdleFrame == [pc |-> "idle", slides |-> <<>>, i |-> 0, responses |-> <<>>,
              similarity |-> <<>>, fitted |-> <<>>, result |-> <<>>, path |-> "none",
              between |-> FALSE]

Init ==
    /\ openai_client \in BOOLEAN
    /\ heap = <<>>
    /\ slides = <<>>
    /\ pc = "idle"
    /\ i = 0
    /\ scored_slides = <<>>
    /\ calls = <<>>
    /\ slide_scores = <<>>
    /\ categorized_slides = EmptyBuckets
    /\ result = <<>>
    /\ path = "none"
    /\ invocation = 0
    /\ input = <<>>
    /\ responses = <<>>
    /\ similarity = <<>>
    /\ first = <<>>
    /\ vectorizer = <<>>
    /\ tasks = [t \in Tasks |-> IdleFrame]
    /\ requirements = IdleRequirements
    /\ batch_order = <<>>
    /\ response_text = <<>>

\* match_slides without the return of lines 47-48
MatchSlidesNoEarlyReturn ==
    /\ pc = "idle"
    /\ \E p \in Pools :
         /\ heap' = p.heap
         /\ slides' = p.slides
         /\ input' = p.heap
    /\ pc' = "ai_score"
    /\ path' = "none"
    /\ invocation' = 1
    /\ UNCHANGED <<openai_client, i, scored_slides, calls, slide_scores,
                   categorized_slides, result, responses, similarity, first,
                   vectorizer, tasks,
                   requirements, batch_order, response_text>>

\* match_slides is called (lines 36-48): an empty pool returns at once
MatchSlides ==
    /\ pc = "idle"
    /\ \E p \in Pools :
         /\ heap' = p.heap
         /\ slides' = p.slides
         /\ pc' = IF p.slides = <<>> THEN "done" ELSE "ai_score"
         /\ path' = IF p.slides = <<>> THEN "empty" ELSE "none"
         /\ input' = p.heap
    /\ invocation' = 1
    /\ UNCHANGED <<openai_client, i, scored_slides, calls, slide_scores,
                   categorized_slides, result, responses, similarity, first,
                   vectorizer, tasks,
                   requirements, batch_order, response_text>>

\* match_slides is called again with the same list of the same records, as
\* the call before left them
MatchSlidesAgain ==
    /\ pc = "done"
    /\ slides # <<>>
    /\ Len(slides) <= MaxRerunPool
    /\ invocation < MaxInvocations
    /\ invocation' = invocation + 1
    /\ input' = heap
    /\ first' = IF invocation = 1
                THEN <<[responses |-> responses, similarity |-> similarity,
                        result |-> result, path |-> path]>>
                ELSE first
    /\ pc' = "ai_score"
    /\ i' = 0
    /\ scored_slides' = <<>>
    /\ calls' = <<>>
    /\ responses' = <<>>
    /\ similarity' = <<>>
    /\ slide_scores' = <<>>
    /\ categorized_slides' = EmptyBuckets
    /\ result' = <<>>
    /\ path' = "none"
    /\ UNCHANGED <<openai_client, heap, slides, vectorizer, tasks,
                   requirements, batch_order, response_text>>

\* the loop of _ai_score_slides with one more request for a batch whose
\* request raised
AnalyzeSlideBatchRetry ==
    /\ pc = "ai_score"
    /\ i < Len(slides)
    /\ LET batch == SubSeq(slides, i + 1, Min(i + BatchSize, Len(slides)))
       IN \E judged \in JudgeOutcomes(openai_client, Len(batch)) :
             LET again == judged.call = "error"
                          /\ (calls = <<>> \/ calls[Len(calls)] # "error")
             IN /\ heap' = IF again THEN heap ELSE ApplyScores(heap, batch, judged.ai_scores, 0)
                /\ calls' = Append(calls, judged.call)
                /\ responses' = Append(responses, judged.ai_scores)
                /\ scored_slides' = IF again THEN scored_slides ELSE scored_slides \o batch
                /\ i' = IF again THEN i ELSE i + BatchSize
    /\ UNCHANGED <<openai_client, slides, pc, slide_scores, categorized_slides, result, path,
                   invocation, input, similarity, first, vectorizer, tasks,
                   requirements, batch_order, response_text>>

\* one turn of the loop of _ai_score_slides (lines 100-103): the whole of
\* _analyze_slide_batch for slides[i:i+5]
AnalyzeSlideBatch ==
    /\ pc = "ai_score"
    /\ i < Len(slides)
    /\ LET batch == SubSeq(slides, i + 1, Min(i + BatchSize, Len(slides)))
       IN /\ \E judged \in JudgeOutcomes(openai_client, Len(batch)) :
                /\ heap' = ApplyScores(heap, batch, judged.ai_scores, 0)
                /\ calls' = Append(calls, judged.call)
                /\ responses' = Append(responses, judged.ai_scores)
          /\ scored_slides' = scored_slides \o batch
    /\ i' = i + BatchSize
    /\ UNCHANGED <<openai_client, slides, pc, slide_scores, categorized_slides, result, path,
                   invocation, input, similarity, first, vectorizer, tasks,
                   requirements, batch_order, response_text>>

\* the rest of match_slides, which never suspends (lines 57-73): similarity
\* scoring, fusion, classification, allocation, or the fallback of line 73
FinishMatch ==
    /\ pc = "ai_score"
    /\ i >= Len(slides)
    /\ \E ml \in MlOutcomes(Len(slides)) :
         \E out \in {RestOfMatchSlides(heap, slides, scored_slides,
                                        Transform(Fit(vectorizer, slides, ml), slides, ml))} :
            /\ similarity' = <<Transform(Fit(vectorizer, slides, ml), slides, ml)>>
            /\ vectorizer' = Fit(vectorizer, slides, ml)
            /\ slide_scores' = out.slide_scores
            /\ categorized_slides' = out.categorized_slides
            /\ heap' = out.heap
            /\ result' = out.result
            /\ path' = out.path
    /\ pc' = "done"
    /\ UNCHANGED <<openai_client, slides, i, scored_slides, calls,
                   invocation, input, responses, first, tasks,
                   requirements, batch_order, response_text>>

\* ------------------------------------- two invocations on one ContentMatcher
\* task 1 is match_slides on a pool of MaxPairPool slides, task 2 on a pool of
\* MaxOtherPool other slides; every await of match_slides and of
\* _ai_score_slides (lines 52, 102) is a point where the other task may run.
PairSlides(t) ==
    IF t = 1 THEN Tuple([k \in 1..MaxPairPool |-> k])
    ELSE Tuple([k \in 1..MaxOtherPool |-> MaxPairPool + k])

PairHeap == Tuple([o \in 1..(MaxPairPool + MaxOtherPool) |-> [id |-> o]])

\* match_slides is called in task t
TaskMatchSlides(t) ==
    /\ tasks[t].pc = "idle"
    /\ tasks' = [tasks EXCEPT ![t].pc = "ai_score", ![t].slides = PairSlides(t)]
    /\ heap' = IF heap = <<>> THEN PairHeap ELSE heap
    /\ UNCHANGED <<openai_client, slides, pc, i, scored_slides, calls, slide_scores,
                   categorized_slides, result, path,
                   invocation, input, responses, similarity, first, vectorizer,
                   requirements, batch_order, response_text>>

\* one batch of task t (lines 100-103)
TaskAnalyzeSlideBatch(t) ==
    LET f == tasks[t]
        g == tasks[3 - t]
        batch == SubSeq(f.slides, f.i + 1, Min(f.i + BatchSize, Len(f.slides)))
    IN /\ f.pc = "ai_score"
       /\ f.i < Len(f.slides)
       /\ \E judged \in JudgeOutcomes(openai_client, Len(batch)) :
             /\ heap' = ApplyScores(heap, batch, judged.ai_scores, 0)
             /\ tasks' = [tasks EXCEPT
                            ![t].i = f.i + BatchSize,
                            ![t].responses = Append(f.responses, judged.ai_scores),
                            ![t].between = f.between \/
                                (g.pc = "ai_score" /\ g.i > 0 /\ g.i < Len(g.slides))]
       /\ UNCHANGED <<openai_client, slides, pc, i, scored_slides, calls, slide_scores,
                      categorized_slides, result, path,
                      invocation, input, responses, similarity, first, vectorizer,
                   requirements, batch_order, response_text>>

\* the rest of match_slides in task t (lines 57-73), which has no await
TaskFinishMatch(t) ==
    LET f == tasks[t]
    IN /\ f.pc = "ai_score"
       /\ f.i >= Len(f.slides)
       /\ \E ml \in MlOutcomes(Len(f.slides)) :
            \E out \in {RestOfMatchSlides(heap, f.slides, f.slides,
                            Transform(Fit(vectorizer, f.slides, ml), f.slides, ml))} :
               /\ heap' = out.heap
               /\ vectorizer' = Fit(vectorizer, f.slides, ml)
               /\ tasks' = [tasks EXCEPT
                              ![t].pc = "done",
                              ![t].similarity = <<ml>>,
                              ![t].fitted = Fit(vectorizer, f.slides, ml),
                              ![t].result = out.result,
                              ![t].path = out.path]
       /\ UNCHANGED <<openai_client, slides, pc, i, scored_slides, calls, slide_scores,
                      categorized_slides, result, path,
                      invocation, input, responses, similarity, first,
                   requirements, batch_order, response_text>>

\* ------------------------------------------- the diversity/length policy
\* _select_slides_by_requirements is called with a list and a use case.  pc
\* is "returned" when it has returned and "fill" when the loop of line 360 is
\* where it stays; max_per_type is what _get_max_slides_per_type returns for
\* each type and the target.
SelectSlidesByRequirementsCall ==
    /\ requirements.pc = "idle"
    /\ \E words \in WordLists, sorted_slides \in SortedLists :
         \E out \in {SelectSlidesByRequirements(sorted_slides, UseCase(words))} :
            requirements' = [pc |-> IF out.returns THEN "returned" ELSE "fill",
                             words |-> words,
                             use_case |-> UseCase(words),
                             sorted_slides |-> sorted_slides,
                             target_slides |-> out.target_slides,
                             max_per_type |-> [t \in SlideTypes |->
                                                 GetMaxSlidesPerType(t, out.target_slides)],
                             admitted |-> out.admitted,
                             selected_slides |-> out.selected_slides]
    /\ UNCHANGED <<openai_client, heap, slides, pc, i, scored_slides, calls, slide_scores,
                   categorized_slides, result, path,
                   invocation, input, responses, similarity, first, vectorizer, tasks,
                   batch_order, response_text>>

NextRequirements == SelectSlidesByRequirementsCall

\* ------------------------------------------------ batches taken in any order
\* The batches of _ai_score_slides as tasks that run in any order: the judge
\* outcome of every batch is fixed when match_slides is called, a batch's
\* step (lines 113-182, which holds no await) is taken whole, and the scored
\* list is the concatenation of the batches in input order.
MaxAnyOrderPool == 7

AnyOrderPools == {MakePool(n, mode) : n \in 1..MaxAnyOrderPool,
                                      mode \in {"distinct", "dupid", "alias"}}

BatchCount(list) == (Len(list) + BatchSize - 1) \div BatchSize

BatchSlides(list, b) == SubSeq(list, BatchSize * (b - 1) + 1, Min(BatchSize * b, Len(list)))

\* one judge outcome for every batch of a list
OutcomesPerBatch(client, list) ==
    LET all == UNION {JudgeOutcomes(client, n) : n \in 1..BatchSize}
    IN {f \in [1..BatchCount(list) -> all] :
          \A b \in 1..BatchCount(list) : f[b] \in JudgeOutcomes(client, Len(BatchSlides(list, b)))}

AnyOrderMatchSlides ==
    /\ pc = "idle"
    /\ \E p \in AnyOrderPools :
         /\ heap' = p.heap
         /\ input' = p.heap
         /\ slides' = p.slides
         /\ \E judged \in OutcomesPerBatch(openai_client, p.slides) :
               responses' = [b \in DOMAIN judged |-> judged[b].ai_scores]
    /\ pc' = "ai_score"
    /\ batch_order' = <<>>
    /\ invocation' = 1
    /\ UNCHANGED <<openai_client, i, scored_slides, calls, slide_scores,
                   categorized_slides, result, path, similarity, first, vectorizer, tasks,
                   requirements, response_text>>

\* the step of any batch not yet judged
AnyOrderAnalyzeSlideBatch ==
    /\ pc = "ai_score"
    /\ \E b \in (1..BatchCount(slides)) \ Range(batch_order) :
         /\ heap' = ApplyScores(heap, BatchSlides(slides, b), responses[b], 0)
         /\ batch_order' = Append(batch_order, b)
    /\ UNCHANGED <<openai_client, slides, pc, i, scored_slides, calls, slide_scores,
                   categorized_slides, result, path,
                   invocation, input, responses, similarity, first, vectorizer, tasks,
                   requirements, response_text>>

\* every batch is judged: the rest of match_slides (lines 57-73)
AnyOrderFinishMatch ==
    /\ pc = "ai_score"
    /\ Len(batch_order) = BatchCount(slides)
    /\ \E ml \in MlOutcomes(Len(slides)) :
         \E out \in {RestOfMatchSlides(heap, slides, slides, ml)} :
            /\ similarity' = <<ml>>
            /\ slide_scores' = out.slide_scores
            /\ categorized_slides' = out.categorized_slides
            /\ heap' = out.heap
            /\ result' = out.result
            /\ path' = out.path
    /\ scored_slides' = slides
    /\ pc' = "done"
    /\ UNCHANGED <<openai_client, slides, i, calls,
                   invocation, input, responses, first, vectorizer, tasks,
                   requirements, batch_order, response_text>>

NextAnyOrder == AnyOrderMatchSlides \/ AnyOrderAnalyzeSlideBatch \/ AnyOrderFinishMatch

\* ------------------------------------------------------ the judge's text
\* _analyze_slide_batch for one batch of fresh records with a client whose
\* response is a text (lines 167-178)
AnalyzeSlideBatchText ==
    /\ pc = "idle"
    /\ \E n \in 1..MaxParseBatch, text \in Texts :
         \E ai_scores \in {ParseAiResponse(text)} :
            /\ response_text' = text
            /\ slides' = Tuple([k \in 1..n |-> k])
            /\ input' = Tuple([o \in 1..n |-> [id |-> o]])
            /\ responses' = <<ai_scores>>
            /\ heap' = ApplyScores(Tuple([o \in 1..n |-> [id |-> o]]),
                                   Tuple([k \in 1..n |-> k]), ai_scores, 0)
    /\ calls' = <<"response">>
    /\ pc' = "ai_score"
    /\ i' = BatchSize
    /\ UNCHANGED <<openai_client, scored_slides, slide_scores,
                   categorized_slides, result, path,
                   invocation, similarity, first, vectorizer, tasks,
                   requirements, batch_order>>

NextParse == AnalyzeSlideBatchText

NextPair == \E t \in Tasks :
               TaskMatchSlides(t) \/ TaskAnalyzeSlideBatch(t) \/ TaskFinishMatch(t)

Next == MatchSlides \/ MatchSlidesAgain \/ AnalyzeSlideBatch \/ FinishMatch

Spec == Init /\ [][Next]_vars

SpecPair == Init /\ [][NextPair]_vars

SpecRequirements == Init /\ [][NextRequirements]_vars

SpecAnyOrder == Init /\ [][NextAnyOrder]_vars

SpecParse == Init /\ [][NextParse]_vars

\* ================================================================== claims
Done == pc = "done"

\* match_slides returned the list _select_slides_optimized built
Selected == pc = "done" /\ path = "selected"

Out(k) == heap[result[k]]

Positions == 1..Len(result)

CountTier(level) == Cardinality({k \in Positions : Out(k).confidence_level = level})

JudgeUnavailable == \A k \in 1..Len(calls) : calls[k] \in {"unavailable", "error"}

\* C1: for every non-empty pool and every judge behaviour the returned list
\* has at most 15 entries and at least one.
C1_OutputSizeBounds ==
    (Done /\ slides # <<>>) => (Len(result) <= 15 /\ Len(result) >= 1)

C1_Witness ==
    /\ Selected
    /\ Len(slides) > 15
    /\ Len(result) = 15
    /\ \E k \in 1..Len(calls) : calls[k] = "response"

\* C2: no two records of the returned list have the same identifier, on the
\* normal path and on the fallback of line 73.
C2_NoDuplicateIds ==
    Done => \A a, b \in Positions : a # b => GetId(Out(a)) # GetId(Out(b))

\* C3: every record of the returned list carries one processing action of
\* the three, on every return path.
C3_OneActionEach ==
    Done => \A k \in Positions :
               /\ Has(Out(k), "action")
               /\ Out(k).action \in {"copy_exact", "minor_enhancement", "full_generation"}

\* C4: the combined score fusion writes on a candidate is 0.7 x its judge
\* score + 0.3 x its similarity score (7*ai + 3*ml in thousandths), and lies
\* in [0,1] when both scores do.
C4_CombinedScoreFormula ==
    Selected => \A k \in 1..Len(slide_scores) :
        LET r == heap[slide_scores[k].slide]
            ai == GetAiScore(r).v
            ml == GetMlScore(r)
        IN /\ slide_scores[k].ai_score = GetAiScore(r)
           /\ slide_scores[k].ml_score = ml
           /\ r.combined_score = 7 * ai + 3 * ml
           /\ (ai >= 0 /\ ai <= 100 /\ ml >= 0 /\ ml <= 100)
                 => (r.combined_score >= 0 /\ r.combined_score <= 1000)

C4_Witness ==
    /\ Selected
    /\ \E k \in 1..Len(slide_scores) :
          /\ slide_scores[k].ai_score = Num(100)
          /\ slide_scores[k].ml_score = 100
          /\ heap[slide_scores[k].slide].combined_score = 1000
    /\ \E k \in 1..Len(slide_scores) :
          /\ slide_scores[k].ai_score = Num(60)
          /\ heap[slide_scores[k].slide].combined_score = 696

C6_TierCaps ==
    Selected =>
      /\ CountTier("high") = Min(Len(categorized_slides.high_confidence), 8)
      /\ CountTier("medium") = Min(Len(categorized_slides.medium_confidence), 5)

C6_Witness ==
    /\ Selected
    /\ Len(categorized_slides.high_confidence) >= 12
    /\ CountTier("high") = 8
    /\ Len(result) < 15

\* C7 as stated: whenever the output holds a low-tier candidate its length
\* is at most 10.
C7_LowOnlyToMinimum ==
    Selected => (CountTier("low") > 0 => Len(result) <= 10)

\* C7 amended: low-tier candidates enter only when fewer than 10 high- and
\* medium-tier candidates were selected, and then fill up to the cap of 15:
\* whenever the output holds a low-tier candidate it holds at most 9 high-
\* and medium-tier candidates and at most 15 candidates in all.
C7_LowOnlyBelowMinimum ==
    Selected => (CountTier("low") > 0 =>
                    (CountTier("high") + CountTier("medium") < 10 /\ Len(result) <= 15))

C7_Witness ==
    /\ Selected
    /\ CountTier("low") > 0
    /\ CountTier("high") + CountTier("medium") = 9
    /\ Len(result) = 15

TierRank(level) == CASE level = "high" -> 0 [] level = "medium" -> 1 [] level = "low" -> 2

\* C9: in the output no high-tier candidate comes after a medium- or
\* low-tier one and no medium-tier candidate after a low-tier one.
C9_TiersInOrder ==
    Selected => \A a, b \in Positions : a < b =>
        TierRank(Out(a).confidence_level) <= TierRank(Out(b).confidence_level)

C9_Witness ==
    /\ Selected
    /\ CountTier("high") > 0
    /\ CountTier("medium") > 0
    /\ CountTier("low") > 0
    /\ \E a, b \in Positions : /\ a < b
                               /\ result[a] > result[b]
                               /\ Out(a).confidence_level # Out(b).confidence_level

\* C10: when no judge is configured or every request raises, every
\* candidate's judge score is 0.5, the output of a non-empty pool is not
\* empty, and it is ordered by non-increasing similarity score.
C10_JudgeUnavailable ==
    (Done /\ slides # <<>> /\ JudgeUnavailable) =>
      /\ path = "selected"
      /\ \A o \in Range(slides) : Has(heap[o], "ai_score") /\ heap[o].ai_score = Num(50)
      /\ result # <<>>
      /\ \A a, b \in Positions : a < b => GetMlScore(Out(a)) >= GetMlScore(Out(b))

C10_Witness ==
    /\ Done
    /\ openai_client
    /\ Len(calls) >= 2
    /\ JudgeUnavailable
    /\ \E a, b \in Positions : /\ a < b
                               /\ result[a] > result[b]
                               /\ GetMlScore(Out(a)) > GetMlScore(Out(b))

\* ---------------------------------------------------------------- C11..C20
\* the batch and the index in its batch of position p of the pool
BatchOf(p) == ((p - 1) \div BatchSize) + 1

IndexOf(p) == (p - 1) % BatchSize

DefaultReasons == {"AI analysis unavailable", "AI analysis failed",
                   "Default score", "No specific analysis"}

\* the response has a record for the index, with a number as score and a reason
Usable(ai_scores, idx) ==
    LET f == FindScore(ai_scores, 1, idx)
    IN /\ f.kind = "found"
       /\ Has(f.rec, "score")
       /\ f.rec.score.num
       /\ Has(f.rec, "reason")

\* no judge, a request that raised, a text with no list that parses, or a
\* list with no usable record for the index of position p
NoJudgement(p) ==
    \/ calls[BatchOf(p)] # "response"
    \/ responses[BatchOf(p)] = ParseDefaults
    \/ ~Usable(responses[BatchOf(p)], IndexOf(p))

\* C11: a candidate for whose index the judge gave no usable record (or no
\* judge, a failed request, an unparsable text) enters fusion with judge
\* score 0.5 and carries a default rationale.
C11_DefaultScoreWhenNoRecord ==
    (Done /\ slides # <<>>) =>
       \A k \in 1..Len(slide_scores) :
          LET e == slide_scores[k]
          IN NoJudgement(LastIndex(slides, e.slide)) =>
                /\ e.ai_score = Num(DefaultScore)
                /\ Has(heap[e.slide], "ai_reason")
                /\ heap[e.slide].ai_reason \in DefaultReasons

\* C12: every candidate's judge score is in [0,1] (0..100 in hundredths) and
\* every record of the output has a combined score in [0,1] (0..1000).
C12_ScoresInUnitInterval ==
    (Done /\ slides # <<>>) =>
       /\ \A o \in Range(slides) :
             /\ Has(heap[o], "ai_score")
             /\ heap[o].ai_score.num
             /\ heap[o].ai_score.v >= 0
             /\ heap[o].ai_score.v <= 100
       /\ \A k \in Positions :
             /\ Has(Out(k), "combined_score")
             /\ Out(k).combined_score >= 0
             /\ Out(k).combined_score <= 1000

\* the fields the engine writes on a record
EngineFields == {"ai_score", "ai_reason", "ml_score", "combined_score",
                 "confidence_level", "action", "cost"}

\* the invocation wrote field f of record o
Wrote(o, f) == Has(heap[o], f) /\ (~Has(input[o], f) \/ heap[o][f] # input[o][f])

\* C13: on the fallback of line 73 match_slides returns the first min(10, N)
\* records of the input in their order, and the invocation has written no
\* judge score, similarity score, combined score, tier or action on them.
C13_FallbackUnscored ==
    (Done /\ path = "fallback") =>
       /\ result = Take(slides, 10)
       /\ \A k \in Positions :
             \A f \in {"ai_score", "ml_score", "combined_score", "confidence_level", "action"} :
                ~Wrote(result[k], f)

\* match_slides returned a list of records of the pool
ReturnedList == /\ path \in {"empty", "selected", "fallback"}
                /\ result \in Seq(DOMAIN heap)

FailedStages == {"judge_call", "parsing", "apply", "similarity", "fusion"}

\* the stages of the current invocation that failed
Failed(stage) ==
    CASE stage = "judge_call" -> \E b \in 1..Len(calls) : calls[b] = "error"
      [] stage = "parsing" -> \E b \in 1..Len(calls) :
                                 calls[b] = "response" /\ responses[b] = ParseDefaults
      [] stage = "apply" -> \E p \in 1..Len(slides) :
                               /\ BatchOf(p) <= Len(calls)
                               /\ calls[BatchOf(p)] = "response"
                               /\ ~Has(heap[slides[p]], "ai_score")
      [] stage = "similarity" -> similarity # <<>> /\ ~similarity[1].ok
      [] stage = "fusion" -> path = "fallback"

\* C14: match_slides never propagates an error: whatever stage fails, an
\* invocation takes no more judge steps than the pool has batches, and at
\* its end it has returned a list.
C14_AlwaysReturnsList ==
    /\ pc = "done" => ReturnedList
    /\ pc = "ai_score" =>
          /\ i = BatchSize * Len(calls)
          /\ Len(calls) <= (Len(slides) + BatchSize - 1) \div BatchSize

C14_Witness ==
    /\ Done
    /\ \A stage \in FailedStages : Failed(stage)
    /\ ReturnedList
    /\ Len(result) = FallbackLen

\* the current invocation is a second one on the same records and was given
\* what the first was given: the same judge outcome for every batch and the
\* same outcome of the similarity computation
SameAsFirst ==
    /\ invocation = 2
    /\ responses = first[1].responses
    /\ similarity = first[1].similarity

\* C15: a run of match_slides on the pool of an earlier run, with the same
\* judge responses per batch, returns the same list in the same order.
C15_Deterministic ==
    (Done /\ invocation = 2 /\ SameAsFirst) =>
        (result = first[1].result /\ path = first[1].path)

C15_Witness ==
    /\ Done
    /\ invocation = 2
    /\ SameAsFirst
    /\ path = "selected"
    /\ Len(result) >= 3
    /\ \E a, b \in Positions : a < b /\ result[a] > result[b]
    /\ \E o \in Range(slides) : ~Has(heap[o], "ai_score")

SimilarityFailed == similarity # <<>> /\ ~similarity[1].ok

\* C16: when the similarity computation fails, every candidate enters fusion
\* with similarity score 0.0, also when an earlier invocation scored the
\* same records.
C16_FailedSimilarityIsZero ==
    (Done /\ SimilarityFailed) =>
        \A k \in 1..Len(slide_scores) : slide_scores[k].ml_score = 0

\* C17: for an empty pool match_slides returns the empty list and makes no
\* judge request and no similarity computation.
C17_EmptyPool ==
    (Done /\ slides = <<>>) =>
        /\ result = <<>>
        /\ path = "empty"
        /\ calls = <<>>
        /\ responses = <<>>
        /\ similarity = <<>>

C17_Witness ==
    /\ Done
    /\ slides = <<>>
    /\ openai_client
    /\ result = <<>>

\* a record without the fields the engine writes: the pool's own contents
Strip(r) == [f \in (DOMAIN r) \ EngineFields |-> r[f]]

\* the invocation that is given the current one's judge responses and
\* similarity outcome on records no invocation has written
OnFreshRecords ==
    MatchSlidesAlone([o \in DOMAIN input |-> Strip(input[o])], slides, responses, similarity[1])

\* C18: the output of an invocation is a function of its pool contents and
\* its judge responses only: it is the list, and the records on it are the
\* records, that the same invocation returns on records carrying no field
\* of an earlier invocation.
C18_Stateless ==
    (Done /\ slides # <<>>) =>
        /\ result = OnFreshRecords.result
        /\ \A k \in Positions : Out(k) = OnFreshRecords.heap[result[k]]

\* C19: an invocation leaves the caller's list and every record of the pool
\* as they were when it was called: no field added, none overwritten.
C19_InputsReadOnly ==
    (Done /\ slides # <<>>) =>
        /\ DOMAIN heap = DOMAIN input
        /\ \A o \in DOMAIN heap : heap[o] = input[o]

\* task t run alone: one invocation on the fresh pool, given the judge
\* outcomes and the similarity outcome task t was given
Alone(t) == MatchSlidesAlone(PairHeap, tasks[t].slides, tasks[t].responses,
                             tasks[t].similarity[1])

\* C20: two invocations on one ContentMatcher for disjoint pools, interleaved
\* at every await, each return what they return when run alone, with the
\* records as they are left when run alone, and each similarity computation
\* that succeeds has fitted the vectorizer on its own corpus.
C20_ConcurrentInvocationsIndependent ==
    \A t \in Tasks :
       tasks[t].pc = "done" =>
          LET alone == Alone(t)
          IN /\ tasks[t].result = alone.result
             /\ tasks[t].path = alone.path
             /\ \A o \in Range(tasks[t].slides) : heap[o] = alone.heap[o]
             /\ tasks[t].similarity[1].ok => tasks[t].fitted = tasks[t].slides

C20_Witness ==
    /\ \A t \in Tasks : tasks[t].pc = "done" /\ tasks[t].path = "selected"
    /\ tasks[2].between
    /\ vectorizer = tasks[1].slides
    /\ tasks[2].fitted = tasks[2].slides
    /\ \E k \in 1..Len(tasks[2].result) : heap[tasks[2].result[k]].ml_score > 0
    /\ \E a, b \in 1..Len(tasks[1].result) : a < b /\ tasks[1].result[a] > tasks[1].result[b]

\* ---------------------------------------------------------------- C21..C30
\* _select_slides_by_requirements was called
Called == requirements.pc # "idle"

\* one of the words the use case was made of is one of ws
HasWord(ws) == \E k \in 1..Len(requirements.words) : requirements.words[k] \in ws

\* C21: the target deck length is 8 for a use case with 'pitch' or 'demo' in
\* any case, else 15 with 'training' or 'education', else 12 with 'report' or
\* 'analysis', else 10; the caps for target T are title 2, content
\* floor(0.4 T), chart floor(0.2 T), image floor(0.15 T), quote floor(0.1 T),
\* conclusion 2, any other type floor(0.1 T); 'training' gives 15 and 6.
C21_TargetAndCaps ==
    Called =>
       LET T == requirements.target_slides
           cap == requirements.max_per_type
       IN /\ T = IF HasWord({"Pitch", "DEMO", "pitching"}) THEN 8
                 ELSE IF HasWord({"training", "Education"}) THEN 15
                 ELSE IF HasWord({"REPORT", "analysis"}) THEN 12
                 ELSE 10
          /\ cap["title"] = 2
          /\ cap["content"] = (4 * T) \div 10
          /\ cap["chart"] = (2 * T) \div 10
          /\ cap["image"] = (15 * T) \div 100
          /\ cap["quote"] = T \div 10
          /\ cap["conclusion"] = 2
          /\ cap["diagram"] = T \div 10
          /\ (HasWord({"training"}) /\ ~HasWord({"Pitch", "DEMO", "pitching"}))
                => (T = 15 /\ cap["content"] = 6)

C21_Witness ==
    /\ Called
    /\ requirements.words = <<"REPORT", "training">>
    /\ requirements.target_slides = 15
    /\ requirements.max_per_type["content"] = 6
    /\ requirements.max_per_type["image"] = 2

\* _select_slides_by_requirements returned its list
Returned == requirements.pc = "returned"

\* the number of entries of a type on a list of entries
CountType(list, type) ==
    Cardinality({k \in 1..Len(list) : GetSlideType(list[k].slide) = type})

\* C22 as stated: for every slide type the output holds at most that type's
\* cap of entries.
C22_CapsRespected ==
    Returned => \A type \in SlideTypes :
        CountType(requirements.selected_slides, type) <= requirements.max_per_type[type]

\* C22 amended: the caps bind the capped pass only.  The entries that pass
\* admitted, which come first in the output, hold at most the cap of every
\* type; the entries the fill appends after them are not counted against any
\* cap.
C22_CapsOnAdmitted ==
    Returned =>
       /\ requirements.admitted <= Len(requirements.selected_slides)
       /\ \A type \in SlideTypes :
             CountType(SubSeq(requirements.selected_slides, 1, requirements.admitted), type)
                <= requirements.max_per_type[type]

C22_Witness ==
    /\ Returned
    /\ requirements.admitted < Len(requirements.selected_slides)
    /\ CountType(requirements.selected_slides, "title") > requirements.max_per_type["title"]
    /\ CountType(SubSeq(requirements.selected_slides, 1, requirements.admitted), "title")
          = requirements.max_per_type["title"]
    /\ CountType(requirements.selected_slides, "content") > 0

\* C23: low-tier candidates are added only when fewer than 10 high- and
\* medium-tier candidates are selected, and then at most 15 minus that number
\* (as many as the low tier has, up to that); with 10 or more high- and
\* medium-tier candidates the output holds no low-tier candidate.
C23_LowBackfill ==
    Selected =>
       LET n == CountTier("high") + CountTier("medium")
           low == CountTier("low")
       IN /\ low > 0 => n < 10
          /\ low <= 15 - n
          /\ n >= 10 => low = 0
          /\ n < 10 => low = Min(Len(categorized_slides.low_confidence), 15 - n)

C23_Witness ==
    /\ Selected
    /\ CountTier("high") + CountTier("medium") >= 10
    /\ Len(categorized_slides.low_confidence) > 0
    /\ CountTier("low") = 0
    /\ Len(result) < 15

PositionsOf(b) == (BatchSize * (b - 1) + 1)..Min(BatchSize * b, Len(slides))

\* record m of a response is the first of the response with its index
FirstWithIndex(ai_scores, m) ==
    \A j \in 1..(m - 1) : Has(ai_scores[j], "index") => ai_scores[j].index # ai_scores[m].index

\* C25: the pool is cut in input order into consecutive batches of at most 5
\* and the batches judged so far are the pool's first positions in input
\* order; a record of the response to batch b with index i (the first with
\* that index, carrying a score) is applied to the candidate at position
\* 5(b-1) + i + 1, a record whose index is outside the batch to none, and the
\* candidates of batches not yet judged are as they were.
C25_PositionalBatches ==
    (pc \in {"ai_score", "done"} /\ Len(calls) >= 1) =>
       LET b == Len(calls)
           ai_scores == responses[b]
       IN /\ scored_slides = SubSeq(slides, 1, Min(BatchSize * b, Len(slides)))
          /\ \A m \in 1..Len(ai_scores) :
                LET rec == ai_scores[m]
                IN (/\ Has(rec, "index")
                    /\ Has(rec, "score")
                    /\ FirstWithIndex(ai_scores, m)
                    /\ BatchSize * (b - 1) + rec.index + 1 \in PositionsOf(b))
                      => LET o == slides[BatchSize * (b - 1) + rec.index + 1]
                         IN Has(heap[o], "ai_score") /\ heap[o].ai_score = rec.score
          /\ \A p \in (BatchSize * b + 1)..Len(slides) :
                slides[p] \notin Range(scored_slides) =>
                   /\ Has(heap[slides[p]], "ai_score") = Has(input[slides[p]], "ai_score")
                   /\ GetAiScore(heap[slides[p]]) = GetAiScore(input[slides[p]])

\* the judge requests of the current invocation: a step of a batch without a
\* judge configured issues none
Requests == Cardinality({k \in 1..Len(calls) : calls[k] \in {"error", "response"}})

Batches == (Len(slides) + BatchSize - 1) \div BatchSize

\* C26: judge requests are issued one batch after the other in batch order,
\* each batch causes at most one request and none is repeated after a
\* failure: before the step of batch k+1 the batches 1..k have each had one
\* step and been applied; a run with a judge configured issues ceil(N/5)
\* requests and a run without one issues none.
C26_SequentialRequests ==
    /\ pc = "ai_score" =>
          /\ i = BatchSize * Len(calls)
          /\ Len(responses) = Len(calls)
          /\ scored_slides = SubSeq(slides, 1, Min(i, Len(slides)))
          /\ Requests = IF openai_client THEN Len(calls) ELSE 0
    /\ Done =>
          /\ Len(calls) = Batches
          /\ Requests = IF openai_client THEN Batches ELSE 0

C26_Witness ==
    /\ Done
    /\ openai_client
    /\ Len(slides) = 11
    /\ calls = <<"error", "response", "error">>
    /\ Requests = 3

\* the invocation with its batches judged one after the other in input order
InInputOrder == MatchSlidesAlone(input, slides, responses, similarity[1])

\* a record of the pool occurs in more than one batch
SharedAcrossBatches ==
    \E p, q \in 1..Len(slides) : slides[p] = slides[q] /\ BatchOf(p) # BatchOf(q)

\* C27: with the judge response of every batch fixed, judging the batches in
\* any order yields the judge scores on every candidate, and the output, of
\* judging them in input order, also for a pool in which one record occurs in
\* more than one batch.
C27_BatchesIndependent ==
    Done =>
       LET seq == InInputOrder
       IN /\ result = seq.result
          /\ path = seq.path
          /\ \A o \in Range(slides) :
                /\ Has(heap[o], "ai_score") = Has(seq.heap[o], "ai_score")
                /\ GetAiScore(heap[o]) = GetAiScore(seq.heap[o])

\* entry k of the input list is among the entries the capped pass admitted
InAdmitted(k) ==
    requirements.sorted_slides[k]
       \in Range(SubSeq(requirements.selected_slides, 1, requirements.admitted))

\* the position in the input list of entry k of the output
InputPosition(k) ==
    CHOOSE j \in 1..Len(requirements.sorted_slides) :
       requirements.sorted_slides[j] = requirements.selected_slides[k]

\* C28: for a list in descending score order the policy returns
\* min(target, pool size) entries, none repeated: first the entries admitted
\* in input order while their type's cap is not reached and the target not
\* met, then, if the target is not met, the not-yet-selected entries in input
\* order whatever their type.
C28_ExactLengthAndFill ==
    Called =>
       LET list == requirements.sorted_slides
           out == requirements.selected_slides
           a == requirements.admitted
           T == requirements.target_slides
           cap == requirements.max_per_type
           Type(k) == GetSlideType(list[k].slide)
       IN /\ Returned
          /\ Len(out) = Min(T, Len(list))
          /\ \A j, k \in 1..Len(out) : j # k => out[j] # out[k]
          /\ Range(out) \subseteq Range(list)
          /\ \A j, k \in 1..a : j < k => InputPosition(j) < InputPosition(k)
          /\ \A j, k \in (a + 1)..Len(out) : j < k => InputPosition(j) < InputPosition(k)
          /\ \A k \in 1..Len(list) :
                InAdmitted(k) <=>
                   /\ Cardinality({j \in 1..(k - 1) : InAdmitted(j) /\ Type(j) = Type(k)})
                         < cap[Type(k)]
                   /\ Cardinality({j \in 1..(k - 1) : InAdmitted(j)}) < T
          /\ \A k \in (a + 1)..Len(out) :
                \A j \in 1..(InputPosition(k) - 1) : list[j] \in Range(SubSeq(out, 1, k - 1))

\* no two entries of the input list are equal
AllDistinct ==
    \A j, k \in 1..Len(requirements.sorted_slides) :
       j # k => requirements.sorted_slides[j] # requirements.sorted_slides[k]

\* C29: the policy terminates for every finite list, also one with entries
\* that compare equal: the loop of line 360 is never at a turn that appends
\* nothing while its condition holds.
C29_FillLoopEnds ==
    requirements.pc # "fill"

\* the tokens from position k on begin with a well-formed list of one or
\* more records
RecordListAt(text, k) ==
    LET l == JsonList(text, k)
    IN /\ l.ok
       /\ l.value # <<>>
       /\ \A j \in 1..Len(l.value) : Has(l.value[j], "index")

HasRecordList(text) == \E k \in 1..Len(text) : RecordListAt(text, k)

\* the records of the first well-formed list of records of a text
FirstRecordList(text) ==
    JsonList(text, CHOOSE k \in 1..Len(text) :
                      RecordListAt(text, k) /\ \A j \in 1..(k - 1) : ~RecordListAt(text, j)).value

\* C30: for every text that holds a well-formed list of records, whatever
\* comes before or after it, square brackets included, the records applied
\* to the batch are those of the first well-formed list.
C30_FirstWellFormedList ==
    (response_text # <<>> /\ HasRecordList(response_text)) =>
       /\ responses[1] = FirstRecordList(response_text)
       /\ heap = ApplyScores(input, slides, FirstRecordList(response_text), 0)

====
